---- MODULE Spec2Model ----
(***************************************************************************)
(* Three-vehicle car-following simulation (Lead L, followers F1 and F2):   *)
(* the four simulation engines of the repository,                          *)
(*   Line/model.py                     ThreeCarFollowingModel              *)
(*   ring_F1_onlylookforward/model.py  CircularCarFollowingModel           *)
(*   ring2_BasedOnLine/model.py        CircularCarFollowingModel           *)
(*   White Noise/model.py              CircularCarFollowingModel           *)
(* as one state machine: constructing an instance, and run_simulation as   *)
(* RunBegin, one Step_* per loop iteration, RunEnd.                        *)
(*                                                                         *)
(* Numbers.  A Python float r is the integer r * Scale (fixed point).      *)
(* Sums, differences, comparisons, min, max, clip and % are exact.  A      *)
(* product of two floats is Mul, rounded down to the grid; a product with  *)
(* an int (lambda1, lambda2) is exact.  Python ints that are not floats    *)
(* (lambda1, lambda2, t_idx, list lengths, the seed) are plain integers.   *)
(*                                                                         *)
(* np.random is the process-wide generator: the variable rng.  Its         *)
(* state before any seeding is unknown, so Init draws it from RngInit.     *)
(***************************************************************************)
EXTENDS Integers, Sequences, FiniteSets, TLC

\* ------------------------------------------------------------------ bounds
Scale == 100
MaxRuns == 2
RngPeriod == 16

\* ----------------------------------------------------------------- numbers
R(n) == n * Scale
Tenths(n) == (n * Scale) \div 10
Hundredths(n) == (n * Scale) \div 100
Mul(a, b) == (a * b) \div Scale
Min(a, b) == IF a < b THEN a ELSE b
Max(a, b) == IF a > b THEN a ELSE b
Abs(a) == IF a < 0 THEN -a ELSE a
\* np.clip(x, lo, hi) = minimum(maximum(x, lo), hi)
Clip(x, lo, hi) == Min(Max(x, lo), hi)
\* seeded fault: the remainder takes the sign of the dividend, as in C
PyMod_Truncated(a, b) ==
    IF b > 0 THEN (IF a >= 0 THEN a % b ELSE -((-a) % b)) ELSE -((-a) % (-b))
\* Python's a % b for b # 0: the result has the sign of b ([0, b) for b > 0,
\* (b, 0] for b < 0)
PyMod(a, b) == IF b > 0 THEN a % b ELSE -((-a) % (-b))

\* An optional argument: None, or a value
None == <<>>
Some(x) == <<x>>
IsNone(a) == a = <<>>
Val(a) == a[1]

\* ---------------------------------------------------------------- np.random
\* The generator's stream: a full-period congruential sequence over
\* 0 .. RngPeriod-1.  Each draw reads the state and advances it.
RngNext(s) == (5 * s + 3) % RngPeriod
RngSeed(seed) == (7 * seed + 1) % RngPeriod
\* the standard normal sample drawn in state s: -4.0, -3.5, .. (beyond +-3)
RngZ(s) == ((2 * s - RngPeriod) * Scale) \div 4
\* np.random.normal(0, std) = 0 + std * z
RngNormal(s, std) == Mul(std, RngZ(s))
\* np.random.random(): uniform in [0, 1)
RngUniform(s) == (s * Scale) \div RngPeriod
RngInit == {0, 5, 11}

\* ------------------------------------------------------- shared by the rings
\* (circular_distance, heaviside_step, calculate_accelerations and
\*  apply_safety_constraints are the same text in the three ring files)

\* seeded fault: the signed difference, without abs
circular_distance_Directed(track_length, pos1, pos2) ==
    LET diff == pos1 - pos2
    IN  Min(diff, track_length - diff)
circular_distance(track_length, pos1, pos2) ==
    LET diff == Abs(pos1 - pos2)
    IN  Min(diff, track_length - diff)

\* seeded fault: a gap equal to the threshold counts as above it
heaviside_step_NonStrict(x) == IF x >= 0 THEN 1 ELSE 0
heaviside_step(x) == IF x > 0 THEN 1 ELSE 0

\* f"{lambda1}{lambda2}"
IntStr(n) == IF n = 0 THEN "0" ELSE IF n = 1 THEN "1" ELSE "?"
\* seeded fault: the two bits in the other order
ModeStr_Swapped(lambda1, lambda2) == IntStr(lambda2) \o IntStr(lambda1)
ModeStr(lambda1, lambda2) == IntStr(lambda1) \o IntStr(lambda2)

\* seeded fault: the time axis starts at dt, np.arange(dt, t_max, dt)
ArangeLen_FromDt(t_max, dt) ==
    IF dt > 0 /\ t_max > dt THEN (t_max - 1) \div dt ELSE 0
\* len(np.arange(0, t_max, dt)) for dt # 0: ceil(t_max / dt), or 0 when that
\* is not positive
ArangeLen(t_max, dt) ==
    IF dt > 0 /\ t_max > 0 THEN (t_max + dt - 1) \div dt
    ELSE IF dt < 0 /\ t_max < 0 THEN ((-t_max) + (-dt) - 1) \div (-dt)
    ELSE 0

\* the d argument: a scalar <<d>> or a tuple <<lo, hi>>
DThreshold(d) == IF Len(d) = 2 THEN (d[1] + d[2]) \div 2 ELSE d[1]
DMin(d) == IF Len(d) = 2 THEN d[1] ELSE d[1] - R(10)
DMax(d) == IF Len(d) = 2 THEN d[2] ELSE d[1] + R(10)

calculate_accelerations(o, target, current) ==
    << Mul(target[1] - current[1], o.response_factor),
       Mul(target[2] - current[2], o.response_factor),
       Mul(target[3] - current[3], o.response_factor) >>

max_accel == R(3)
max_decel == -R(4)
\* seeded fault: a softer brake than the normal floor allows
hard_brake_Soft == -R(2)
hard_brake == -R(3)
ClipAccel(a) == Clip(a, max_decel, max_accel)
emergency_distance(o) == Mul(o.d, Tenths(6))
\* seeded fault: the emergency test is left out
EmergencyBrake_Never(gap, o, a) == a
EmergencyBrake(gap, o, a) == IF gap < emergency_distance(o) THEN Min(a, hard_brake) ELSE a

apply_safety_constraints(o, acc) ==
    << ClipAccel(acc[1]),
       EmergencyBrake(o.x1, o, ClipAccel(acc[2])),
       EmergencyBrake(o.x2, o, ClipAccel(acc[3])) >>

\* seeded fault: the newest record overwrites the one before it
Record_Overwrite(column, x) ==
    IF column = <<>> THEN << x >> ELSE [ column EXCEPT ![Len(column)] = x ]
\* self.history[...].append(x)
Record(column, x) == Append(column, x)

\* the history dict of the ring variants after __init__
RingHistory0(x0, y1, y2, x1, x2, v0, v1, v2) ==
    [ x0 |-> <<x0>>, y1 |-> <<y1>>, y2 |-> <<y2>>,
      x1 |-> <<x1>>, x2 |-> <<x2>>,
      v0 |-> <<v0>>, v1 |-> <<v1>>, v2 |-> <<v2>>,
      lambda1 |-> <<>>, lambda2 |-> <<>>, mode |-> <<>>,
      target_v0 |-> <<>>, target_v1 |-> <<>>, target_v2 |-> <<>>,
      accel_0 |-> <<>>, accel_1 |-> <<>>, accel_2 |-> <<>> ]

\* the appends that end a ring step
RingAppend(h, n, lambda1, lambda2, target, acc) ==
    [ h EXCEPT
      !.x0 = Record(@, n.x0), !.y1 = Record(@, n.y1), !.y2 = Record(@, n.y2),
      !.x1 = Record(@, n.x1), !.x2 = Record(@, n.x2),
      !.v0 = Record(@, n.v0), !.v1 = Record(@, n.v1), !.v2 = Record(@, n.v2),
      !.lambda1 = Record(@, lambda1), !.lambda2 = Record(@, lambda2),
      !.mode = Record(@, ModeStr(lambda1, lambda2)),
      !.target_v0 = Record(@, target[1]),
      !.target_v1 = Record(@, target[2]),
      !.target_v2 = Record(@, target[3]),
      !.accel_0 = Record(@, acc[1]),
      !.accel_1 = Record(@, acc[2]),
      !.accel_2 = Record(@, acc[3]) ]

\* seeded fault: the positions advance without wrapping
RingMove_NoWrap(o, v) ==
    LET x0 == o.x0 + Mul(v[1], o.dt)
        y1 == o.y1 + Mul(v[2], o.dt)
        y2 == o.y2 + Mul(v[3], o.dt)
    IN  [ o EXCEPT !.v0 = v[1], !.v1 = v[2], !.v2 = v[3],
                   !.x0 = x0, !.y1 = y1, !.y2 = y2,
                   !.x1 = circular_distance(o.track_length, x0, y1),
                   !.x2 = circular_distance(o.track_length, y1, y2) ]
\* positions advance and wrap, then the gaps are recomputed
RingMove(o, v) ==
    LET x0 == PyMod(o.x0 + Mul(v[1], o.dt), o.track_length)
        y1 == PyMod(o.y1 + Mul(v[2], o.dt), o.track_length)
        y2 == PyMod(o.y2 + Mul(v[3], o.dt), o.track_length)
    IN  [ o EXCEPT !.v0 = v[1], !.v1 = v[2], !.v2 = v[3],
                   !.x0 = x0, !.y1 = y1, !.y2 = y2,
                   !.x1 = circular_distance(o.track_length, x0, y1),
                   !.x2 = circular_distance(o.track_length, y1, y2) ]

\* ------------------------------------------------- ring_F1_onlylookforward
RF_min_speed == R(5)
RF_max_speed == R(35)
RF_SpeedLimit(v) == Clip(v, RF_min_speed, RF_max_speed)

RF_default_velocities(a) == << a.base_velocity, a.base_velocity, a.base_velocity >>
RF_default_positions == << R(1000), R(960), R(930) >>

\* the exception __init__ raises, or "ok": the lists are indexed [0], [1], [2]
RF_init_outcome(a) ==
    LET iv == IF IsNone(a.initial_velocities) THEN RF_default_velocities(a)
              ELSE Val(a.initial_velocities)
        ip == IF IsNone(a.initial_positions) THEN RF_default_positions
              ELSE Val(a.initial_positions)
    IN  IF Len(ip) < 3 \/ Len(iv) < 3 THEN "IndexError"
        \* np.arange(0, t_max, dt) divides by the step
        ELSE IF a.dt = 0 THEN "ZeroDivisionError"
        ELSE "ok"

RF_init(a) ==
    LET iv == IF IsNone(a.initial_velocities) THEN RF_default_velocities(a)
              ELSE Val(a.initial_velocities)
        ip == IF IsNone(a.initial_positions) THEN RF_default_positions
              ELSE Val(a.initial_positions)
        x1 == circular_distance(a.track_length, ip[1], ip[2])
        x2 == circular_distance(a.track_length, ip[2], ip[3])
    IN  [ variant |-> "ring_F1",
          track_length |-> a.track_length,
          d |-> DThreshold(a.d), min_distance |-> DMin(a.d), max_distance |-> DMax(a.d),
          base_velocity |-> a.base_velocity,
          lambda_params |-> a.lambda_params,
          response_factor |-> a.response_factor,
          x0 |-> ip[1], y1 |-> ip[2], y2 |-> ip[3],
          v0 |-> iv[1], v1 |-> iv[2], v2 |-> iv[3],
          dt |-> a.dt, t_max |-> a.t_max, ntime |-> ArangeLen(a.t_max, a.dt),
          x1 |-> x1, x2 |-> x2,
          history |-> RingHistory0(ip[1], ip[2], ip[3], x1, x2, iv[1], iv[2], iv[3]) ]

\* seeded fault: F1's target is chosen by the gap behind it as well
RF_calculate_target_velocities_LooksBack(o, lambda1, lambda2) ==
    LET v == o.base_velocity
        p == o.lambda_params
    IN  << v + p.c1 * lambda1 + p.c0 * (1 - lambda1),
           v + p.a11 * lambda1 * lambda2 - p.a0 * (1 - lambda1),
           v + p.b1 * lambda2 + p.b0 * (1 - lambda2) >>
\* <<target_v0, target_v1, target_v2>>
RF_calculate_target_velocities(o, lambda1, lambda2) ==
    LET v == o.base_velocity
        p == o.lambda_params
    IN  << v + p.c1 * lambda1 + p.c0 * (1 - lambda1),
           v + p.a11 * lambda1 - p.a0 * (1 - lambda1),
           v + p.b1 * lambda2 + p.b0 * (1 - lambda2) >>

\* seeded fault: F2's mode bit is a copy of F1's
RF_step_OneBit(o) ==
    LET lambda1 == heaviside_step(o.x1 - o.d)
        lambda2 == lambda1
        target == RF_calculate_target_velocities(o, lambda1, lambda2)
        acc == calculate_accelerations(o, target, << o.v0, o.v1, o.v2 >>)
        safe == apply_safety_constraints(o, acc)
        v == << RF_SpeedLimit(o.v0 + Mul(safe[1], o.dt)),
                RF_SpeedLimit(o.v1 + Mul(safe[2], o.dt)),
                RF_SpeedLimit(o.v2 + Mul(safe[3], o.dt)) >>
        n == RingMove(o, v)
    IN  [ n EXCEPT !.history = RingAppend(o.history, n, lambda1, lambda2, target, safe) ]
\* one iteration of run_simulation's loop
RF_step(o) ==
    LET lambda1 == heaviside_step(o.x1 - o.d)
        lambda2 == heaviside_step(o.x2 - o.d)
        target == RF_calculate_target_velocities(o, lambda1, lambda2)
        acc == calculate_accelerations(o, target, << o.v0, o.v1, o.v2 >>)
        safe == apply_safety_constraints(o, acc)
        v == << RF_SpeedLimit(o.v0 + Mul(safe[1], o.dt)),
                RF_SpeedLimit(o.v1 + Mul(safe[2], o.dt)),
                RF_SpeedLimit(o.v2 + Mul(safe[3], o.dt)) >>
        n == RingMove(o, v)
    IN  [ n EXCEPT !.history = RingAppend(o.history, n, lambda1, lambda2, target, safe) ]

\* run_simulation as a whole, from loop index t_idx
RECURSIVE RF_run_simulation(_, _)
RF_run_simulation(o, t_idx) ==
    IF t_idx < o.ntime - 1 THEN RF_run_simulation(RF_step(o), t_idx + 1) ELSE o

\* ----------------------------------------------------------- ring2_BasedOnLine
R2_init_outcome(a) == RF_init_outcome(a)

R2_init(a) == [ RF_init(a) EXCEPT !.variant = "ring2" ]

\* <<target_v0, target_v1, target_v2>>: F1 looks both ways (four branches)
R2_calculate_target_velocities(o, lambda1, lambda2) ==
    LET v == o.base_velocity
        p == o.lambda_params
    IN  << v + p.c1 * lambda1 + p.c0 * (1 - lambda1),
           v + p.a11 * lambda1 * lambda2 + p.a10 * lambda1 * (1 - lambda2)
             + p.a01 * (1 - lambda1) * lambda2 + p.a00 * (1 - lambda1) * (1 - lambda2),
           v + p.b1 * lambda2 + p.b0 * (1 - lambda2) >>

R2_noise_std == Tenths(2)
R2_extra_probability == Hundredths(5)

\* four draws, and a fifth when the uniform draw is below 0.05
R2_add_realistic_noise(acc, s) ==
    LET s1 == RngNext(s)
        s2 == RngNext(s1)
        s3 == RngNext(s2)
        s4 == RngNext(s3)
        extra == RngUniform(s3) < R2_extra_probability
        a0 == acc[1] + RngNormal(s, R2_noise_std)
    IN  [ acc |-> << IF extra THEN a0 + RngNormal(s4, R(1)) ELSE a0,
                     acc[2] + RngNormal(s1, R2_noise_std),
                     acc[3] + RngNormal(s2, R2_noise_std) >>,
          rng |-> IF extra THEN RngNext(s4) ELSE s4 ]

\* one iteration of run_simulation's loop: [obj, rng]
R2_step(o, s) ==
    LET lambda1 == heaviside_step(o.x1 - o.d)
        lambda2 == heaviside_step(o.x2 - o.d)
        target == R2_calculate_target_velocities(o, lambda1, lambda2)
        acc == calculate_accelerations(o, target, << o.v0, o.v1, o.v2 >>)
        safe == apply_safety_constraints(o, acc)
        noisy == R2_add_realistic_noise(safe, s)
        final == noisy.acc
        v == << RF_SpeedLimit(o.v0 + Mul(final[1], o.dt)),
                RF_SpeedLimit(o.v1 + Mul(final[2], o.dt)),
                RF_SpeedLimit(o.v2 + Mul(final[3], o.dt)) >>
        n == RingMove(o, v)
    IN  [ obj |-> [ n EXCEPT !.history =
                      RingAppend(o.history, n, lambda1, lambda2, target, final) ],
          rng |-> noisy.rng ]

\* ------------------------------------------------------------------ White Noise
WN_min_speed == R(5)
WN_max_speed == R(80)
\* seeded fault: the speed limit without its floor
WN_SpeedLimit_NoFloor(v) == Min(v, WN_max_speed)
WN_SpeedLimit(v) == Clip(v, WN_min_speed, WN_max_speed)

WN_default_velocities == << R(60), R(60), R(60) >>

\* seeded fault: the seed is never applied
WN_init_rng_Unseeded(a, s) == s
\* np.random.seed(noise_seed) runs before the lists are indexed
WN_init_rng(a, s) == IF IsNone(a.noise_seed) THEN s ELSE RngSeed(Val(a.noise_seed))

WN_init_outcome(a) ==
    LET iv == IF IsNone(a.initial_velocities) THEN WN_default_velocities
              ELSE Val(a.initial_velocities)
    IN  \* the default positions are taken % track_length
        IF IsNone(a.initial_positions) /\ a.track_length = 0 THEN "ZeroDivisionError"
        ELSE IF (~IsNone(a.initial_positions) /\ Len(Val(a.initial_positions)) < 3)
                \/ Len(iv) < 3
        THEN "IndexError"
        \* np.arange(0, t_max, dt) divides by the step
        ELSE IF a.dt = 0 THEN "ZeroDivisionError"
        ELSE "ok"

WN_init(a) ==
    LET d == DThreshold(a.d)
        iv == IF IsNone(a.initial_velocities) THEN WN_default_velocities
              ELSE Val(a.initial_velocities)
        x0 == IF IsNone(a.initial_positions) THEN R(3000) ELSE Val(a.initial_positions)[1]
        y1 == IF IsNone(a.initial_positions) THEN PyMod(x0 - d, a.track_length)
              ELSE Val(a.initial_positions)[2]
        y2 == IF IsNone(a.initial_positions) THEN PyMod(y1 - d, a.track_length)
              ELSE Val(a.initial_positions)[3]
        x1 == circular_distance(a.track_length, x0, y1)
        x2 == circular_distance(a.track_length, y1, y2)
    IN  [ variant |-> "WhiteNoise",
          track_length |-> a.track_length,
          d |-> d, min_distance |-> DMin(a.d), max_distance |-> DMax(a.d),
          lambda_params |-> a.lambda_params,
          response_factor |-> a.response_factor,
          enable_L_noise |-> a.enable_L_noise,
          noise_std |-> a.noise_std,
          noise_start_time |-> a.noise_start_time,
          noise_active |-> FALSE,
          x0 |-> x0, y1 |-> y1, y2 |-> y2,
          v0 |-> iv[1], v1 |-> iv[2], v2 |-> iv[3],
          dt |-> a.dt, t_max |-> a.t_max, ntime |-> ArangeLen(a.t_max, a.dt),
          x1 |-> x1, x2 |-> x2,
          history |-> [ f \in {"L_noise", "L_speed_without_noise", "noise_active_flag"}
                          |-> <<>> ]
                      @@ RingHistory0(x0, y1, y2, x1, x2, iv[1], iv[2], iv[3]) ]

\* self.time[t_idx]
TimeAt(o, t_idx) == t_idx * o.dt

\* seeded fault: the draw is used as drawn, without the clip to 3 * noise_std
WN_generate_white_noise_Unclipped(o, current_time, s) ==
    IF o.enable_L_noise /\ current_time >= o.noise_start_time
    THEN [ noise |-> RngNormal(s, o.noise_std), rng |-> RngNext(s), noise_active |-> TRUE ]
    ELSE [ noise |-> 0, rng |-> s, noise_active |-> o.noise_active ]
\* seeded fault: the start time is not consulted
WN_generate_white_noise_Ungated(o, current_time, s) ==
    IF o.enable_L_noise
    THEN LET max_noise == 3 * o.noise_std
         IN  [ noise |-> Clip(RngNormal(s, o.noise_std), -max_noise, max_noise),
               rng |-> RngNext(s),
               noise_active |-> TRUE ]
    ELSE [ noise |-> 0, rng |-> s, noise_active |-> o.noise_active ]
\* [noise, rng, noise_active]: a draw is made only once the gate is open
WN_generate_white_noise(o, current_time, s) ==
    IF o.enable_L_noise /\ current_time >= o.noise_start_time
    THEN LET max_noise == 3 * o.noise_std
         IN  [ noise |-> Clip(RngNormal(s, o.noise_std), -max_noise, max_noise),
               rng |-> RngNext(s),
               noise_active |-> TRUE ]
    ELSE [ noise |-> 0, rng |-> s, noise_active |-> o.noise_active ]

\* seeded fault: the Lead's offset has the followers' signs
WN_calculate_target_velocities_LeadAsFollower(o, lambda1, lambda2) ==
    LET p == o.lambda_params
    IN  << o.v0 + p.c1 * lambda1 - p.c0 * (1 - lambda1),
           o.v1 + p.a11 * lambda1 - p.a0 * (1 - lambda1),
           o.v2 + p.b1 * lambda2 - p.b0 * (1 - lambda2) >>
\* <<target_v0, target_v1, target_v2>>: offsets from the current velocities
WN_calculate_target_velocities(o, lambda1, lambda2) ==
    LET p == o.lambda_params
    IN  << o.v0 - p.c1 * lambda1 + p.c0 * (1 - lambda1),
           o.v1 + p.a11 * lambda1 - p.a0 * (1 - lambda1),
           o.v2 + p.b1 * lambda2 - p.b0 * (1 - lambda2) >>

\* seeded fault: the disturbance is added to F1's velocity as well
WN_step_NoiseOnF1(o, t_idx, s) ==
    LET current_time == TimeAt(o, t_idx)
        lambda1 == heaviside_step(o.x1 - o.d)
        lambda2 == heaviside_step(o.x2 - o.d)
        target == WN_calculate_target_velocities(o, lambda1, lambda2)
        acc == calculate_accelerations(o, target, << o.v0, o.v1, o.v2 >>)
        safe == apply_safety_constraints(o, acc)
        v0_without_noise == o.v0 + Mul(safe[1], o.dt)
        g == WN_generate_white_noise(o, current_time, s)
        v == << WN_SpeedLimit(v0_without_noise + g.noise),
                WN_SpeedLimit(o.v1 + Mul(safe[2], o.dt) + g.noise),
                WN_SpeedLimit(o.v2 + Mul(safe[3], o.dt)) >>
        n == RingMove([ o EXCEPT !.noise_active = g.noise_active ], v)
        h == RingAppend(o.history, n, lambda1, lambda2, target, safe)
    IN  [ obj |-> [ n EXCEPT !.history =
                      [ h EXCEPT !.L_noise = Record(@, g.noise),
                                 !.L_speed_without_noise = Record(@, v0_without_noise),
                                 !.noise_active_flag = Record(@, g.noise_active) ] ],
          rng |-> g.rng ]

\* one iteration of run_simulation's loop: [obj, rng]
WN_step(o, t_idx, s) ==
    LET current_time == TimeAt(o, t_idx)
        lambda1 == heaviside_step(o.x1 - o.d)
        lambda2 == heaviside_step(o.x2 - o.d)
        target == WN_calculate_target_velocities(o, lambda1, lambda2)
        acc == calculate_accelerations(o, target, << o.v0, o.v1, o.v2 >>)
        safe == apply_safety_constraints(o, acc)
        v0_without_noise == o.v0 + Mul(safe[1], o.dt)
        g == WN_generate_white_noise(o, current_time, s)
        v == << WN_SpeedLimit(v0_without_noise + g.noise),
                WN_SpeedLimit(o.v1 + Mul(safe[2], o.dt)),
                WN_SpeedLimit(o.v2 + Mul(safe[3], o.dt)) >>
        n == RingMove([ o EXCEPT !.noise_active = g.noise_active ], v)
        h == RingAppend(o.history, n, lambda1, lambda2, target, safe)
    IN  [ obj |-> [ n EXCEPT !.history =
                      [ h EXCEPT !.L_noise = Record(@, g.noise),
                                 !.L_speed_without_noise = Record(@, v0_without_noise),
                                 !.noise_active_flag = Record(@, g.noise_active) ] ],
          rng |-> g.rng ]

\* run_simulation as a whole, from loop index t_idx with the generator in
\* state s: [obj, rng]
RECURSIVE WN_run_simulation(_, _, _)
WN_run_simulation(o, t_idx, s) ==
    IF t_idx < o.ntime - 1
    THEN LET r == WN_step(o, t_idx, s)
         IN  WN_run_simulation(r.obj, t_idx + 1, r.rng)
    ELSE [ obj |-> o, rng |-> s ]

\* ------------------------------------------------------------------------ Line
Line_dt == R(5)
Line_t_max == R(100)
Line_default_velocities == << R(20), R(20), R(20) >>
Line_default_positions == << R(200), R(150), R(100) >>
Line_default_parameters ==
    [ a11 |-> R(2), a10 |-> Tenths(15), a01 |-> R(1), a00 |-> Tenths(5),
      b1 |-> R(2), b0 |-> R(1), c1 |-> Tenths(15), c0 |-> R(1) ]

\* the exception __init__ raises, or "ok": both lengths are validated
Line_init_outcome(a) ==
    IF ~IsNone(a.initial_velocities) /\ Len(Val(a.initial_velocities)) # 3
    THEN "ValueError"
    ELSE IF ~IsNone(a.initial_positions) /\ Len(Val(a.initial_positions)) # 3
    THEN "ValueError" ELSE "ok"

Line_init(a) ==
    LET iv == IF IsNone(a.initial_velocities) THEN Line_default_velocities
              ELSE Val(a.initial_velocities)
        ip == IF IsNone(a.initial_positions) THEN Line_default_positions
              ELSE Val(a.initial_positions)
        x1 == ip[1] - ip[2]
        x2 == ip[2] - ip[3]
    IN  [ variant |-> "Line",
          v0 |-> iv[1], v1 |-> iv[2], v2 |-> iv[3],
          x0 |-> ip[1], y1 |-> ip[2], y2 |-> ip[3],
          d |-> a.d,
          parameters |-> IF IsNone(a.parameters) THEN Line_default_parameters
                         ELSE Val(a.parameters),
          x1 |-> x1, x2 |-> x2,
          dt |-> Line_dt, t_max |-> Line_t_max,
          ntime |-> ArangeLen(Line_t_max, Line_dt),
          history |-> [ x0 |-> << ip[1] >>, y1 |-> << ip[2] >>, y2 |-> << ip[3] >>,
                        x1 |-> << x1 >>, x2 |-> << x2 >>,
                        v0 |-> << iv[1] >>, v1 |-> << iv[2] >>, v2 |-> << iv[3] >>,
                        lambda1 |-> << 0 >>, lambda2 |-> << 0 >>, mode |-> << "00" >> ] ]

Line_target_distance == R(30)
Line_distance_kp == Hundredths(15)
Line_max_accel == R(3)
Line_max_decel == R(5)
Line_min_speed == R(5)
Line_min_safe_distance == R(5)
Line_ClipAccel(a) == Max(Min(a, Line_max_accel), -Line_max_decel)
\* seeded fault: the correction only for vehicles that have already crossed
Line_TooClose_Crossed(gap) == gap < 0
\* if self.x1 < min_safe_distance / if self.x2 < min_safe_distance
Line_TooClose(gap) == gap < Line_min_safe_distance
\* seeded fault: no speed floor
Line_MinSpeed_Off(v) == v
Line_MinSpeed(v) == Max(v, Line_min_speed)
\* seeded fault: the corrected follower keeps its own velocity
Line_MatchSpeed_Off(v, ahead) == v
\* v1 = min(v1, v0) / v2 = min(v2, v1)
Line_MatchSpeed(v, ahead) == Min(v, ahead)

\* the first half of one iteration of run_simulation's loop, up to the
\* recomputed gaps; v is the loop's local <<v0, v1, v2>>
Line_advance(o, v) ==
    LET p == o.parameters
        lambda1 == heaviside_step(o.x1 - o.d)
        lambda2 == heaviside_step(o.x2 - o.d)
        base_accel_1 == p.a11 * lambda1 * lambda2 + p.a10 * lambda1 * (1 - lambda2)
                        - p.a01 * (1 - lambda1) * lambda2
                        - p.a00 * (1 - lambda1) * (1 - lambda2)
        base_accel_2 == p.b1 * lambda2 - p.b0 * (1 - lambda2)
        base_accel_0 == (-p.c1) * lambda1 + p.c0 * (1 - lambda1)
        dist_control_1 == Mul(Line_distance_kp, Line_target_distance - o.x1)
        dist_control_2 == Mul(Line_distance_kp, Line_target_distance - o.x2)
        accel_0 == Line_ClipAccel(base_accel_0)
        accel_1 == Line_ClipAccel(base_accel_1 - dist_control_1)
        accel_2 == Line_ClipAccel(base_accel_2 - dist_control_2)
        v0 == Line_MinSpeed(v[1] + Mul(accel_0, o.dt))
        v1 == Line_MinSpeed(v[2] + Mul(accel_1, o.dt))
        v2 == Line_MinSpeed(v[3] + Mul(accel_2, o.dt))
        x0 == o.x0 + Mul(v0, o.dt)
        y1 == o.y1 + Mul(v1, o.dt)
        y2 == o.y2 + Mul(v2, o.dt)
    IN  [ lambda1 |-> lambda1, lambda2 |-> lambda2,
          v0 |-> v0, v1 |-> v1, v2 |-> v2,
          x0 |-> x0, y1 |-> y1, y2 |-> y2,
          x1 |-> x0 - y1, x2 |-> y1 - y2 ]

\* one iteration of run_simulation's loop: the advance, the minimum safe
\* distance corrections and the appends: [obj, v]
Line_step(o, v) ==
    LET a == Line_advance(o, v)
        x0 == a.x0
        v0 == a.v0
        fix1 == Line_TooClose(a.x1)
        y1 == IF fix1 THEN x0 - Line_min_safe_distance ELSE a.y1
        x1 == IF fix1 THEN Line_min_safe_distance ELSE a.x1
        v1 == IF fix1 THEN Line_MatchSpeed(a.v1, v0) ELSE a.v1
        fix2 == Line_TooClose(a.x2)
        y2 == IF fix2 THEN y1 - Line_min_safe_distance ELSE a.y2
        x2 == IF fix2 THEN Line_min_safe_distance ELSE a.x2
        v2 == IF fix2 THEN Line_MatchSpeed(a.v2, v1) ELSE a.v2
        h == o.history
    IN  [ obj |-> [ o EXCEPT
                    !.x0 = x0, !.y1 = y1, !.y2 = y2, !.x1 = x1, !.x2 = x2,
                    !.history =
                      [ h EXCEPT
                        !.x0 = Record(@, x0), !.y1 = Record(@, y1), !.y2 = Record(@, y2),
                        !.x1 = Record(@, x1), !.x2 = Record(@, x2),
                        !.v0 = Record(@, v0), !.v1 = Record(@, v1), !.v2 = Record(@, v2),
                        !.lambda1 = Record(@, a.lambda1),
                        !.lambda2 = Record(@, a.lambda2),
                        !.mode = Record(@, ModeStr(a.lambda1, a.lambda2)) ] ],
          v |-> << v0, v1, v2 >> ]

\* ---------------------------------------------------- constructor arguments
RingTrack == R(200)
RingIV == { None,
            Some(<< R(20), R(20), R(20) >>),
            Some(<< R(3), R(40), R(36) >>),
            Some(<< R(20), R(20) >>),
            Some(<< R(20), R(20), R(20), R(20) >>) }
RingIP == { None,
            Some(<< R(100), R(60), R(30) >>),
            Some(<< R(100), R(90), R(40) >>),
            Some(<< R(10), R(170), R(120) >>),
            Some(<< R(100), R(60) >>),
            Some(<< R(100), R(60), R(30), R(0) >>) }

RF_default_params ==
    [ a11 |-> Tenths(5), a0 |-> R(1), b1 |-> R(1), b0 |-> -Tenths(15),
      c1 |-> -Tenths(3), c0 |-> Tenths(5) ]
RF_strong_params ==
    [ a11 |-> R(30), a0 |-> R(30), b1 |-> R(30), b0 |-> -R(30),
      c1 |-> -R(30), c0 |-> R(30) ]

\* <<track_length, dt, t_max>> with a value that is zero or negative.  (With
\* track_length = 0 a step's positions are x % 0; the time axis chosen with
\* it has one point, so no step is made.)
RingBadConfig ==
    { << 0, R(2), R(2) >>, << -R(200), R(2), R(8) >>,
      << RingTrack, 0, R(8) >>, << RingTrack, -R(2), R(8) >>,
      << RingTrack, R(2), 0 >>, << RingTrack, R(2), -R(8) >>,
      << RingTrack, -R(2), -R(8) >> }

RF_Args ==
    { [ track_length |-> RingTrack, initial_velocities |-> iv, initial_positions |-> ip,
        d |-> d, base_velocity |-> R(20), lambda_params |-> lp,
        response_factor |-> rf, dt |-> R(2), t_max |-> tm ] :
      iv \in RingIV, ip \in RingIP, d \in { << R(40) >>, << R(20), R(40) >> },
      lp \in { RF_default_params, RF_strong_params },
      rf \in { Tenths(3) }, tm \in { R(8), R(5) } }
    \cup
    { [ track_length |-> c[1], initial_velocities |-> None,
        initial_positions |-> Some(<< R(100), R(60), R(30) >>),
        d |-> << R(40) >>, base_velocity |-> R(20), lambda_params |-> RF_default_params,
        response_factor |-> Tenths(3), dt |-> c[2], t_max |-> c[3] ] :
      c \in RingBadConfig }
    \cup
    \* the Lead placed more than one lap ahead of F1
    { [ track_length |-> RingTrack, initial_velocities |-> None,
        initial_positions |-> Some(<< R(500), R(0), R(170) >>),
        d |-> << R(40) >>, base_velocity |-> R(20), lambda_params |-> RF_default_params,
        response_factor |-> Tenths(3), dt |-> R(2), t_max |-> R(8) ] }
    \cup
    \* both gaps opening, both closing, one held on each side of d, and one
    \* closing while the other stays on its side of d
    { [ track_length |-> RingTrack, initial_velocities |-> Some(c[1]),
        initial_positions |-> Some(c[2]),
        d |-> << R(40) >>, base_velocity |-> R(20), lambda_params |-> RF_default_params,
        response_factor |-> Tenths(3), dt |-> R(2), t_max |-> R(8) ] :
      c \in { << << R(35), R(20), R(5) >>, << R(100), R(65), R(30) >> >>,
              << << R(5), R(20), R(35) >>, << R(100), R(55), R(10) >> >>,
              << << R(20), R(20), R(20) >>, << R(100), R(70), R(10) >> >>,
              << << R(5), R(20), R(20) >>, << R(100), R(55), R(25) >> >>,
              << << R(20), R(20), R(35) >>, << R(150), R(90), R(45) >> >>,
              \* F1 close behind the Lead: below the speed floor, and fast
              << << R(20), R(3), R(20) >>, << R(100), R(90), R(40) >> >>,
              << << R(5), R(20), R(20) >>, << R(100), R(90), R(40) >> >> } }

R2_default_params ==
    [ a11 |-> Tenths(5), a10 |-> -R(1), a01 |-> Tenths(15), a00 |-> -R(2),
      b1 |-> R(1), b0 |-> -Tenths(15), c1 |-> -Tenths(3), c0 |-> Tenths(5) ]

R2_Args ==
    { [ track_length |-> RingTrack, initial_velocities |-> iv, initial_positions |-> ip,
        d |-> << R(40) >>, base_velocity |-> R(20), lambda_params |-> R2_default_params,
        response_factor |-> Tenths(3), dt |-> R(2), t_max |-> R(8) ] :
      iv \in { None, Some(<< R(3), R(40), R(36) >>),
               Some(<< R(20), R(20), R(20), R(20) >>) },
      ip \in { Some(<< R(100), R(60), R(30) >>), Some(<< R(100), R(90), R(40) >>),
               Some(<< R(100), R(60) >>) } }

WN_default_params ==
    [ a11 |-> Tenths(5), a0 |-> Tenths(3), b1 |-> R(1), b0 |-> Tenths(15),
      c1 |-> Tenths(3), c0 |-> Tenths(5) ]
WN_zero_params ==
    [ a11 |-> 0, a0 |-> 0, b1 |-> 0, b0 |-> 0, c1 |-> 0, c0 |-> 0 ]
WN_strong_params ==
    [ a11 |-> R(30), a0 |-> R(30), b1 |-> R(30), b0 |-> R(30),
      c1 |-> R(30), c0 |-> R(30) ]

WN_Track == R(300)
WN_IV == { None, Some(<< R(20), R(20), R(20) >>), Some(<< R(3), R(90), R(60) >>) }
WN_IP == { None, Some(<< R(200), R(150), R(100) >>), Some(<< R(100), R(90), R(40) >>) }

WN_Rec(iv, ip, lp, en, std, start, seed) ==
    [ track_length |-> WN_Track, initial_velocities |-> iv, initial_positions |-> ip,
      d |-> << R(40) >>, lambda_params |-> lp, response_factor |-> Tenths(3),
      dt |-> R(2), t_max |-> R(8),
      enable_L_noise |-> en, noise_std |-> std, noise_start_time |-> start,
      noise_seed |-> seed ]

\* a track_length, dt or t_max that is zero or negative
WN_BadArgs ==
    { [ WN_Rec(None, ip, WN_default_params, FALSE, R(1), R(150), None)
          EXCEPT !.track_length = c[1], !.dt = c[2], !.t_max = c[3] ] :
        ip \in { None, Some(<< R(200), R(150), R(100) >>) },
        c \in { << 0, R(2), R(2) >>, << WN_Track, 0, R(8) >>,
                << WN_Track, R(2), 0 >>, << WN_Track, -R(2), R(8) >> } }

\* runs without the disturbance, runs with it, and wrong-length lists
WN_Args ==
    { WN_Rec(iv, ip, lp, FALSE, R(1), R(150), None) :
        iv \in WN_IV, ip \in WN_IP,
        lp \in { WN_default_params, WN_zero_params, WN_strong_params } }
    \cup
    { WN_Rec(iv, ip, WN_default_params, TRUE, std, start, seed) :
        iv \in { None, Some(<< R(3), R(90), R(60) >>) },
        ip \in { Some(<< R(200), R(150), R(100) >>) },
        std \in { R(1), R(5) }, start \in { 0, R(3) },
        seed \in { None, Some(1), Some(2) } }
    \cup
    { WN_Rec(iv, ip, WN_default_params, TRUE, R(1), 0, Some(1)) :
        iv \in { None, Some(<< R(20), R(20) >>), Some(<< R(20), R(20), R(20), R(20) >>) },
        ip \in { None, Some(<< R(100), R(60) >>), Some(<< R(100), R(60), R(30), R(0) >>) } }
    \cup WN_BadArgs

Line_strong_parameters ==
    [ a11 |-> R(8), a10 |-> R(6), a01 |-> R(6), a00 |-> R(8),
      b1 |-> R(8), b0 |-> R(6), c1 |-> R(6), c0 |-> R(4) ]

Line_Args ==
    { [ initial_velocities |-> iv, initial_positions |-> ip, d |-> R(30),
        parameters |-> pr ] :
      iv \in { None, Some(<< R(25), R(20), R(15) >>), Some(<< R(2), R(30), R(40) >>),
               Some(<< R(20), R(20) >>), Some(<< R(20), R(20), R(20), R(20) >>) },
      ip \in { None, Some(<< R(200), R(120), R(60) >>), Some(<< R(100), R(150), R(120) >>),
               Some(<< R(200), R(198), R(100) >>),
               Some(<< R(100), R(60) >>), Some(<< R(100), R(60), R(30), R(0) >>) },
      pr \in { None, Some(Line_strong_parameters) } }

\* --------------------------------------------------------------------- state
VARIABLES
    obj,      \* obj[i]: the instance in slot i, or NoObj
    args,     \* args[i]: the arguments slot i's constructor was called with
    outcome,  \* outcome[i]: "none", "ok" or the exception the constructor raised
    rng,      \* the state of the process-wide np.random generator
    born,     \* born[i]: the generator's state when slot i's constructor returned
    run,      \* the run_simulation call in progress: slot, t_idx, locals
    calls     \* the calls made so far, in order: <<"init", i>>, <<"run", i>>

vars == << obj, args, outcome, born, rng, run, calls >>

Ids == { 1, 2 }
NoObj == [ variant |-> "none" ]
NoRun == [ id |-> 0, t_idx |-> 0, v |-> <<>> ]

NRuns(i) == Cardinality({ k \in DOMAIN calls : calls[k] = << "run", i >> })

Init ==
    /\ obj = [ i \in Ids |-> NoObj ]
    /\ args = [ i \in Ids |-> None ]
    /\ outcome = [ i \in Ids |-> "none" ]
    /\ born = [ i \in Ids |-> 0 ]
    /\ rng \in RngInit
    /\ run = NoRun
    /\ calls = <<>>

\* -------------------------------------------------------------- construction
Constructed(i, a, out, o) ==
    /\ outcome[i] = "none"
    /\ run = NoRun
    /\ args' = [ args EXCEPT ![i] = Some(a) ]
    /\ outcome' = [ outcome EXCEPT ![i] = out ]
    /\ obj' = [ obj EXCEPT ![i] = o ]
    /\ born' = [ born EXCEPT ![i] = rng' ]
    /\ calls' = Append(calls, << "init", i >>)
    /\ UNCHANGED run

Construct_Line(i) ==
    \E a \in Line_Args :
        LET out == Line_init_outcome(a)
        IN  /\ UNCHANGED rng
            /\ Constructed(i, a, out, IF out = "ok" THEN Line_init(a) ELSE NoObj)

Construct_RingF1(i) ==
    \E a \in RF_Args :
        LET out == RF_init_outcome(a)
        IN  /\ UNCHANGED rng
            /\ Constructed(i, a, out, IF out = "ok" THEN RF_init(a) ELSE NoObj)

Construct_Ring2(i) ==
    \E a \in R2_Args :
        LET out == R2_init_outcome(a)
        IN  /\ UNCHANGED rng
            /\ Constructed(i, a, out, IF out = "ok" THEN R2_init(a) ELSE NoObj)

WN_Construct(i, a) ==
    LET out == WN_init_outcome(a)
    IN  /\ rng' = WN_init_rng(a, rng)
        /\ Constructed(i, a, out, IF out = "ok" THEN WN_init(a) ELSE NoObj)

Construct_WhiteNoise(i) == \E a \in WN_Args : WN_Construct(i, a)

\* ------------------------------------------------------------ run_simulation
\* seeded fault: the locals resume from the velocities recorded last
RunLocals_Resumed(o) ==
    IF o.variant = "Line"
    THEN << o.history.v0[Len(o.history.v0)], o.history.v1[Len(o.history.v1)],
            o.history.v2[Len(o.history.v2)] >>
    ELSE <<>>
\* entering run_simulation: the Line model copies self.v0, self.v1, self.v2
\* into the locals v0, v1, v2
RunLocals(o) == IF o.variant = "Line" THEN << o.v0, o.v1, o.v2 >> ELSE <<>>

RunBegin(i) ==
    /\ run = NoRun
    /\ obj[i].variant # "none"
    /\ NRuns(i) < MaxRuns
    /\ run' = [ id |-> i, t_idx |-> 0, v |-> RunLocals(obj[i]) ]
    /\ calls' = Append(calls, << "run", i >>)
    /\ UNCHANGED << obj, args, outcome, born, rng >>

\* for t_idx in range(len(self.time) - 1)
InLoop(i) == run.id = i /\ run.t_idx < obj[i].ntime - 1

Step_Line(i) ==
    /\ InLoop(i)
    /\ obj[i].variant = "Line"
    /\ LET r == Line_step(obj[i], run.v)
       IN  /\ obj' = [ obj EXCEPT ![i] = r.obj ]
           /\ run' = [ run EXCEPT !.t_idx = @ + 1, !.v = r.v ]
    /\ UNCHANGED << args, outcome, born, rng, calls >>

Step_RingF1(i) ==
    /\ InLoop(i)
    /\ obj[i].variant = "ring_F1"
    /\ obj' = [ obj EXCEPT ![i] = RF_step(obj[i]) ]
    /\ run' = [ run EXCEPT !.t_idx = @ + 1 ]
    /\ UNCHANGED << args, outcome, born, rng, calls >>

Step_Ring2(i) ==
    /\ InLoop(i)
    /\ obj[i].variant = "ring2"
    /\ LET r == R2_step(obj[i], rng)
       IN  /\ obj' = [ obj EXCEPT ![i] = r.obj ]
           /\ rng' = r.rng
    /\ run' = [ run EXCEPT !.t_idx = @ + 1 ]
    /\ UNCHANGED << args, outcome, born, calls >>

Step_WhiteNoise(i) ==
    /\ InLoop(i)
    /\ obj[i].variant = "WhiteNoise"
    /\ LET r == WN_step(obj[i], run.t_idx, rng)
       IN  /\ obj' = [ obj EXCEPT ![i] = r.obj ]
           /\ rng' = r.rng
    /\ run' = [ run EXCEPT !.t_idx = @ + 1 ]
    /\ UNCHANGED << args, outcome, born, calls >>

\* the loop is exhausted: run_simulation returns
RunEnd(i) ==
    /\ run.id = i
    /\ ~(run.t_idx < obj[i].ntime - 1)
    /\ run' = NoRun
    /\ UNCHANGED << obj, args, outcome, born, rng, calls >>

\* one instance, of any of the four variants
Next ==
    \/ Construct_Line(1)
    \/ Construct_RingF1(1)
    \/ Construct_Ring2(1)
    \/ Construct_WhiteNoise(1)
    \/ RunBegin(1)
    \/ Step_Line(1)
    \/ Step_RingF1(1)
    \/ Step_Ring2(1)
    \/ Step_WhiteNoise(1)
    \/ RunEnd(1)

Spec == Init /\ [][Next]_vars

\* two White Noise instances in one process, sharing np.random
WN_SharedArgs ==
    { WN_Rec(Some(<< R(20), R(20), R(20) >>), Some(<< R(200), R(150), R(100) >>),
             WN_default_params, TRUE, R(2), start, seed) :
        start \in { 0, R(3) }, seed \in { None, Some(1), Some(2) } }

Construct_Shared(i) == \E a \in WN_SharedArgs : WN_Construct(i, a)

NextShared ==
    \E i \in Ids :
        \/ Construct_Shared(i)
        \/ RunBegin(i)
        \/ Step_WhiteNoise(i)
        \/ RunEnd(i)

SpecShared == Init /\ [][NextShared]_vars

\* ======================================================================
\* Properties
\* ======================================================================
Live(i) == obj[i].variant # "none"
Hist(i) == obj[i].history
IsRing(i) == obj[i].variant \in { "ring_F1", "ring2", "WhiteNoise" }
IsLine(i) == obj[i].variant = "Line"
Within(x, lo, hi) == lo <= x /\ x <= hi
\* the indices of a history column that a step wrote (1 is __init__'s record)
StepRecords(column) == 2 .. Len(column)

\* C1: in every ring variant each velocity of L, F1 and F2 recorded by a step
\* lies within the variant's speed bounds, [5, 35] (ring_F1, ring2) or
\* [5, 80] (White Noise), whatever the initial velocities were.
C1_RingVelocitiesWithinBounds ==
    \A i \in Ids : IsRing(i) =>
        LET h == Hist(i)
            hi == IF obj[i].variant = "WhiteNoise" THEN R(80) ELSE R(35)
        IN  \A k \in StepRecords(h.v0) :
                /\ Within(h.v0[k], R(5), hi)
                /\ Within(h.v1[k], R(5), hi)
                /\ Within(h.v2[k], R(5), hi)

\* a White Noise instance that started below the floor and above the
\* ceiling and has made two steps
C1_Witness ==
    \E i \in Ids :
        /\ obj[i].variant = "WhiteNoise"
        /\ Len(Hist(i).v0) >= 3
        /\ Hist(i).v0[1] < R(5)
        /\ Hist(i).v1[1] > R(80)

\* C2: in the Line model every gap x1 and x2 appended by a step is at least
\* min_safe_distance = 5.0, also from inverted initial positions.
C2_LineGapsAtLeastMinSafe ==
    \A i \in Ids : IsLine(i) =>
        LET h == Hist(i)
        IN  \A k \in StepRecords(h.x1) : h.x1[k] >= R(5) /\ h.x2[k] >= R(5)

\* a Line instance built with F1 ahead of L (negative initial gap) whose
\* first step recorded the corrected gap
C2_Witness ==
    \E i \in Ids :
        /\ IsLine(i)
        /\ Hist(i).x1[1] < 0
        /\ Len(Hist(i).x1) >= 2
        /\ Hist(i).x1[2] = R(5)

Modes == { "00", "01", "10", "11" }
\* lambda and mode agree with the gaps g1, g2 and the threshold d, strictly
Classifies(lambda1, lambda2, mode, g1, g2, d) ==
    /\ lambda1 \in { 0, 1 } /\ lambda2 \in { 0, 1 }
    /\ (lambda1 = 1) <=> (g1 > d)
    /\ (lambda2 = 1) <=> (g2 > d)
    /\ mode \in Modes
    /\ mode = (IF lambda1 = 1 THEN "1" ELSE "0") \o (IF lambda2 = 1 THEN "1" ELSE "0")

\* The step that wrote mode record m also wrote gap record GapOfStep(i, m);
\* the gaps it started from are the record before that one.  (The Line
\* lists begin with a mode record written by __init__, the ring lists do not.)
ModeRecords(i) == IF IsLine(i) THEN 2 .. Len(Hist(i).mode) ELSE 1 .. Len(Hist(i).mode)
GapOfStep(i, m) == IF IsLine(i) THEN m ELSE m + 1

\* C3 as stated: the mode a step records is one of "00", "01", "10", "11"
\* and classifies the gaps that same step recomputed and recorded.
C3_ModeOfRecomputedGaps ==
    \A i \in Ids : Live(i) =>
        LET h == Hist(i)
        IN  \A m \in ModeRecords(i) :
                Classifies(h.lambda1[m], h.lambda2[m], h.mode[m],
                           h.x1[GapOfStep(i, m)], h.x2[GapOfStep(i, m)], obj[i].d)

\* C3 amended: the mode a step records is one of "00", "01", "10", "11" and
\* classifies (strictly) the gaps the step started from, which are the gaps
\* of the record before the one the step appends.
C3_ModeOfStartingGaps ==
    \A i \in Ids : Live(i) =>
        LET h == Hist(i)
        IN  \A m \in ModeRecords(i) :
                Classifies(h.lambda1[m], h.lambda2[m], h.mode[m],
                           h.x1[GapOfStep(i, m) - 1], h.x2[GapOfStep(i, m) - 1], obj[i].d)

\* a step that started from a gap exactly at the threshold (mode bit 0) and
\* left the gap above it
C3_Witness ==
    \E i \in Ids :
        /\ IsRing(i)
        /\ Len(Hist(i).mode) >= 1
        /\ Hist(i).x1[1] = obj[i].d
        /\ Hist(i).lambda1[1] = 0
        /\ Hist(i).x1[2] > obj[i].d

\* the per-step history fields of each variant
LineFields == { "x0", "y1", "y2", "x1", "x2", "v0", "v1", "v2",
                "lambda1", "lambda2", "mode" }
RingStateFields == { "x0", "y1", "y2", "x1", "x2", "v0", "v1", "v2" }
RingStepFields == { "lambda1", "lambda2", "mode", "target_v0", "target_v1", "target_v2",
                    "accel_0", "accel_1", "accel_2" }
NoiseFields == { "L_noise", "L_speed_without_noise", "noise_active_flag" }
StepFieldsOf(i) ==
    IF obj[i].variant = "WhiteNoise" THEN RingStepFields \cup NoiseFields
    ELSE RingStepFields
FieldsOf(i) ==
    IF IsLine(i) THEN LineFields ELSE RingStateFields \cup StepFieldsOf(i)

\* the loop of slot i completes an iteration in this transition
Stepped(i) == run.id = i /\ run'.id = i /\ run'.t_idx = run.t_idx + 1

C4_Lengths ==
    \A i \in Ids : Live(i) =>
        /\ DOMAIN Hist(i) = FieldsOf(i)
        /\ (IsRing(i) /\ NRuns(i) = 1 /\ run.id = i) =>
              /\ \A f \in RingStateFields : Len(Hist(i)[f]) = run.t_idx + 1
              /\ \A f \in StepFieldsOf(i) : Len(Hist(i)[f]) = run.t_idx

C4_Append ==
    \A i \in Ids : Live(i) =>
        IF Stepped(i)
        THEN \A f \in FieldsOf(i) :
                /\ Len(Hist(i)'[f]) = Len(Hist(i)[f]) + 1
                /\ SubSeq(Hist(i)'[f], 1, Len(Hist(i)[f])) = Hist(i)[f]
        ELSE Hist(i)' = Hist(i)

\* C4: every simulated step appends exactly one record to every per-step
\* history field and leaves every earlier record unchanged, and nothing else
\* writes the history; k steps into the first run of a ring instance the
\* position, gap and velocity lists hold k+1 records and the mode, target,
\* acceleration and noise lists hold k.
C4_HistoryGrowsByOneRecord == [][C4_Append]_vars /\ []C4_Lengths

\* a White Noise instance two steps into its first run
C4_Witness ==
    \E i \in Ids :
        /\ obj[i].variant = "WhiteNoise"
        /\ NRuns(i) = 1 /\ run.id = i /\ run.t_idx = 2
        /\ Len(Hist(i).x0) = 3 /\ Len(Hist(i).L_noise) = 2

\* time[t_idx] of the step that wrote the k-th record of a per-step column:
\* every run_simulation call restarts t_idx at 0
StepsPerRun(i) == Max(obj[i].ntime - 1, 0)
TimeOfStep(i, k) == ((k - 1) % StepsPerRun(i)) * obj[i].dt

\* C5: disturbance gating.  L_noise[k] is exactly 0 when enable_L_noise is
\* false or time[k] < noise_start_time, and lies within
\* [-3 * noise_std, 3 * noise_std] when enabled and time[k] >= noise_start_time,
\* whatever the Gaussian draw was.
C5_DisturbanceGating ==
    \A i \in Ids : obj[i].variant = "WhiteNoise" =>
        LET o == obj[i]
            h == o.history
        IN  \A k \in 1 .. Len(h.L_noise) :
                IF o.enable_L_noise /\ TimeOfStep(i, k) >= o.noise_start_time
                THEN Within(h.L_noise[k], -(3 * o.noise_std), 3 * o.noise_std)
                ELSE h.L_noise[k] = 0

\* an enabled instance with a record gated to 0 before the start time and a
\* later record whose draw fell outside 3 standard deviations and was clipped
C5_Witness ==
    \E i \in Ids :
        /\ obj[i].variant = "WhiteNoise"
        /\ obj[i].enable_L_noise
        /\ \E k \in 1 .. Len(Hist(i).L_noise) :
              /\ TimeOfStep(i, k) < obj[i].noise_start_time
              /\ Hist(i).L_noise[k] = 0
        /\ \E k \in 1 .. Len(Hist(i).L_noise) :
              /\ TimeOfStep(i, k) >= obj[i].noise_start_time
              /\ Abs(Hist(i).L_noise[k]) = 3 * obj[i].noise_std

\* the calls so far are: construct a, run a, construct b, run b
BackToBack(a, b) ==
    /\ calls = << << "init", a >>, << "run", a >>, << "init", b >>, << "run", b >> >>
    /\ run = NoRun

\* C6: determinism.  Two White Noise instances constructed with identical
\* arguments, including the same explicit noise_seed, each run to completion
\* right after its own construction, hold identical histories in every column.
C6_SeededRunsAgree ==
    \A a \in Ids : \A b \in Ids \ { a } :
        ( /\ BackToBack(a, b)
          /\ outcome[a] = "ok" /\ outcome[b] = "ok"
          /\ args[a] = args[b]
          /\ ~IsNone(Val(args[a]).noise_seed) )
        => obj[a].history = obj[b].history

\* two such instances after their runs, with a disturbance in the history
C6_Witness ==
    /\ BackToBack(1, 2)
    /\ args[1] = args[2]
    /\ ~IsNone(Val(args[1]).noise_seed)
    /\ \E k \in 1 .. Len(Hist(1).L_noise) : Hist(1).L_noise[k] # 0
    /\ Hist(1) = Hist(2)

\* C7: independent instances share no mutable state.  The history an
\* instance holds after its run is the one it produces when nothing else
\* happens between its construction and the end of its run, whatever was
\* done with another instance in between.
C7_InstancesIsolated ==
    \A i \in Ids :
        ( /\ obj[i].variant = "WhiteNoise"
          /\ NRuns(i) = 1
          /\ run.id # i )
        => obj[i].history =
             WN_run_simulation(WN_init(Val(args[i])), 0, born[i]).obj.history

Last(column) == column[Len(column)]
\* the velocities the next loop iteration starts from: the Line loop works on
\* its locals, the ring loops on self.v0, self.v1, self.v2
StartVelocities(i) ==
    IF IsLine(i) THEN run.v ELSE << obj[i].v0, obj[i].v1, obj[i].v2 >>

\* C8: a second run_simulation call on the same instance continues from the
\* last state: its first step starts from the positions, gaps and velocities
\* of the last record of the call before, whose records are all still there.
C8_SecondRunContinues ==
    \A i \in Ids :
        ( Live(i) /\ run.id = i /\ NRuns(i) >= 2 /\ run.t_idx = 0 ) =>
            LET h == Hist(i)
            IN  /\ Len(h.x0) = 1 + (NRuns(i) - 1) * StepsPerRun(i)
                /\ << obj[i].x0, obj[i].y1, obj[i].y2 >>
                     = << Last(h.x0), Last(h.y1), Last(h.y2) >>
                /\ << obj[i].x1, obj[i].x2 >> = << Last(h.x1), Last(h.x2) >>
                /\ StartVelocities(i) = << Last(h.v0), Last(h.v1), Last(h.v2) >>

\* the records run_simulation has appended to field f: the Line lists and
\* the position, gap and velocity lists begin with __init__'s record
Appended(i, f) ==
    Len(Hist(i)[f]) - (IF IsLine(i) \/ f \in RingStateFields THEN 1 ELSE 0)
FirstRunDone(i) == Live(i) /\ NRuns(i) = 1 /\ run.id # i
DtDividesTmax(i) ==
    obj[i].dt > 0 /\ obj[i].t_max >= obj[i].dt /\ obj[i].t_max % obj[i].dt = 0


\* C9 as stated: the run on a fresh instance executes exactly t_max / dt
\* steps (dt dividing t_max) and appends that many records to each field.
C9_RunsTmaxOverDtSteps ==
    \A i \in Ids :
        ( FirstRunDone(i) /\ DtDividesTmax(i) ) =>
            \A f \in FieldsOf(i) : Appended(i, f) = obj[i].t_max \div obj[i].dt

\* a call in progress either completes one more iteration, within the
\* bound, or returns, and it returns only with every iteration done
C9_Progress ==
    \A i \in Ids : run.id = i =>
        \/ run'.id = i /\ run'.t_idx = run.t_idx + 1 /\ run'.t_idx <= StepsPerRun(i)
        \/ run' = NoRun /\ run.t_idx = StepsPerRun(i)

C9_Counts ==
    \A i \in Ids :
        /\ ( Live(i) /\ NRuns(i) = 1 /\ run.id = i ) =>
              \A f \in FieldsOf(i) : Appended(i, f) = run.t_idx
        /\ ( FirstRunDone(i) /\ DtDividesTmax(i) ) =>
              \A f \in FieldsOf(i) :
                  Appended(i, f) = (obj[i].t_max \div obj[i].dt) - 1

\* C9 amended: a run on a fresh instance never aborts and always returns
\* (every transition of a call in progress is one more iteration of a
\* bounded loop or the return after the last one), and it has then executed
\* exactly t_max / dt - 1 steps (dt dividing t_max): the time axis has
\* t_max / dt points and the loop runs over all but one of them.
C9_RunsOneStepFewer == [][C9_Progress]_vars /\ []C9_Counts

\* fresh instances after their first run: a Line one (19 steps) and a ring
\* one whose t_max is a multiple of dt
C9_Witness ==
    \E i \in Ids :
        /\ FirstRunDone(i) /\ DtDividesTmax(i)
        /\ \/ IsLine(i) /\ Len(Hist(i).mode) = 20
           \/ IsRing(i) /\ Len(Hist(i).mode) = 3

\* a list argument that is given and does not hold exactly 3 values
WrongLength(l) == ~IsNone(l) /\ Len(Val(l)) # 3

\* C10: constructing with an initial_velocities or initial_positions list
\* whose length is not exactly 3 raises an error and produces no instance,
\* in every variant, for lists shorter and longer than 3.
C10_WrongLengthRejected ==
    \A i \in Ids :
        ( /\ outcome[i] # "none"
          /\ \/ WrongLength(Val(args[i]).initial_velocities)
             \/ WrongLength(Val(args[i]).initial_positions) )
        => /\ outcome[i] \in { "ValueError", "IndexError" }
           /\ obj[i] = NoObj

\* a ring constructor's argument record with a track_length, dt or t_max
\* that is zero or negative
BadConfig(a) ==
    /\ "track_length" \in DOMAIN a
    /\ (a.track_length <= 0 \/ a.dt <= 0 \/ a.t_max <= 0)

\* C11: constructing a ring model with a non-positive track_length, a
\* non-positive dt or t_max <= 0 raises an error and produces no instance, so
\* no instance with t_max <= 0 ever exists to be run.
C11_BadConfigRejected ==
    \A i \in Ids :
        ( outcome[i] # "none" /\ BadConfig(Val(args[i])) )
        => /\ outcome[i] # "ok"
           /\ obj[i] = NoObj

\* the ring instances built on a track of positive length
OnTrack(i) == IsRing(i) /\ obj[i].track_length > 0

\* C12: every gap ever recorded, the constructor's record included, is
\* non-negative in every variant, and at most track_length / 2 on a ring
\* (of positive length), whatever the initial positions were.
C12_GapsNonNegativeAndBounded ==
    \A i \in Ids : ( IsLine(i) \/ OnTrack(i) ) =>
        LET h == Hist(i)
        IN  \A k \in 1 .. Len(h.x1) :
                /\ h.x1[k] >= 0 /\ h.x2[k] >= 0
                /\ IsRing(i) =>
                      /\ 2 * h.x1[k] <= obj[i].track_length
                      /\ 2 * h.x2[k] <= obj[i].track_length

\* the variants whose recorded accelerations are apply_safety_constraints'
\* own output
IsGoverned(i) == obj[i].variant \in { "ring_F1", "WhiteNoise" }
\* 0.6 * d
EmergencyGap(i) == Mul(obj[i].d, Tenths(6))
\* the control law's output in step k for the vehicle with velocity column
\* v and target column tv, clipped to [-4.0, 3.0]
ClippedDemand(i, tv, v, k) ==
    Clip(Mul(Hist(i)[tv][k] - Hist(i)[v][k], obj[i].response_factor), -R(4), R(3))

Coasting(i) ==
    /\ obj[i].variant = "WhiteNoise"
    /\ obj[i].lambda_params = WN_zero_params
    /\ ~obj[i].enable_L_noise
    /\ obj[i].track_length > 0 /\ obj[i].dt > 0
    /\ LET h == Hist(i)
       IN  /\ h.v1[1] = h.v0[1] /\ h.v2[1] = h.v0[1]
           /\ Within(h.v0[1], R(5), R(80))
           /\ \A f \in { "x0", "y1", "y2" } :
                  0 <= h[f][1] /\ h[f][1] < obj[i].track_length
           /\ h.x1[1] >= EmergencyGap(i) /\ h.x2[1] >= EmergencyGap(i)

\* C14: such an instance keeps, after any number k of steps, all three
\* velocities at the initial v and both gaps at their initial values, and
\* each position is (initial position + k * v * dt) modulo track_length.
C14_ZeroCoefficientsCoast ==
    \A i \in Ids : Coasting(i) =>
        LET h == Hist(i)
            v == h.v0[1]
        IN  \A n \in 1 .. Len(h.x0) :
                /\ h.v0[n] = v /\ h.v1[n] = v /\ h.v2[n] = v
                /\ h.x1[n] = h.x1[1] /\ h.x2[n] = h.x2[1]
                /\ \A f \in { "x0", "y1", "y2" } :
                      h[f][n] = (h[f][1] + (n - 1) * Mul(v, obj[i].dt))
                                  % obj[i].track_length

\* such an instance four steps on, after the Lead has wrapped round the track
C14_Witness ==
    \E i \in Ids :
        /\ Coasting(i)
        /\ Len(Hist(i).x0) >= 5
        /\ \E n \in 2 .. Len(Hist(i).x0) : Hist(i).x0[n] < Hist(i).x0[n - 1]

\* every position the instance has recorded
PositionsOf(i) ==
    LET h == Hist(i)
    IN  UNION { { h.x0[k], h.y1[k], h.y2[k] } : k \in 1 .. Len(h.x0) }

\* C15: ring gap symmetry.  circular_distance(a, b) = circular_distance(b, a)
\* on every track of positive length: for every pair of positions an
\* instance has recorded, and every recorded gap is also the distance
\* measured from the follower to the vehicle ahead.
C15_GapSymmetric ==
    \A i \in Ids : OnTrack(i) =>
        LET h == Hist(i)
            L == obj[i].track_length
        IN  /\ \A a \in PositionsOf(i) : \A b \in PositionsOf(i) :
                  circular_distance(L, a, b) = circular_distance(L, b, a)
            /\ \A k \in 1 .. Len(h.x1) :
                  /\ h.x1[k] = circular_distance(L, h.y1[k], h.x0[k])
                  /\ h.x2[k] = circular_distance(L, h.y2[k], h.y1[k])

\* a ring instance whose Lead has wrapped round the track and stands at a
\* smaller coordinate than F1, a positive gap apart
C15_Witness ==
    \E i \in Ids :
        /\ OnTrack(i)
        /\ \E k \in 2 .. Len(Hist(i).x1) :
              /\ Hist(i).x0[k] < Hist(i).y1[k]
              /\ Hist(i).x1[k] > 0
              /\ Hist(i).x1[k] = circular_distance(obj[i].track_length,
                                                   Hist(i).y1[k], Hist(i).x0[k])

\* C16: in the Line model every history record is geometrically consistent:
\* x1[n] = x0[n] - y1[n] and x2[n] = y1[n] - y2[n] for every record n, also
\* in the steps where the minimum-safe-distance correction moves F1 or F2.
C16_LineRecordsConsistent ==
    \A i \in Ids : IsLine(i) =>
        LET h == Hist(i)
        IN  \A n \in 1 .. Len(h.x1) :
                /\ h.x1[n] = h.x0[n] - h.y1[n]
                /\ h.x2[n] = h.y1[n] - h.y2[n]

\* "0" or "1"
Bit(b) == IF b THEN "1" ELSE "0"

\* C17: in the ring variants the mode is a memoryless, strict function of
\* the gaps at the start of the step.  For every step k, lambda1[k] = 1 iff
\* x1[k] > d and lambda2[k] = 1 iff x2[k] > d (a gap equal to d gives 0),
\* mode[k] is the two characters lambda1[k] lambda2[k], and two steps that
\* start from the same gaps record the same mode whatever came before them.
C17_ModeMemoryless ==
    \A i \in Ids : IsRing(i) =>
        LET h == Hist(i)
            d == obj[i].d
        IN  \A k \in 1 .. Len(h.mode) :
                /\ h.lambda1[k] = (IF h.x1[k] > d THEN 1 ELSE 0)
                /\ h.lambda2[k] = (IF h.x2[k] > d THEN 1 ELSE 0)
                /\ h.mode[k] = Bit(h.x1[k] > d) \o Bit(h.x2[k] > d)
                /\ \A j \in 1 .. Len(h.mode) :
                      ( h.x1[j] = h.x1[k] /\ h.x2[j] = h.x2[k] )
                      => h.mode[j] = h.mode[k]

\* a ring instance with a step that started from a gap exactly d (bit 0),
\* and a step whose mode differs from the mode of the step before it
C17_Witness ==
    \E i \in Ids :
        /\ IsRing(i)
        /\ \E k \in 1 .. Len(Hist(i).mode) :
              Hist(i).x1[k] = obj[i].d /\ Hist(i).mode[k] = "01"
        /\ \E k \in 2 .. Len(Hist(i).mode) : Hist(i).mode[k] # Hist(i).mode[k - 1]

\* C18: in the White Noise model the disturbance perturbs only the Lead's
\* velocity, after its acceleration update, and the velocity before the
\* disturbance is recorded.  For every step k:
\*   L_speed_without_noise[k] = v0[k] + accel_0[k] * dt,
\*   v0[k+1] = clip(L_speed_without_noise[k] + L_noise[k], 5, 80),
\*   v1[k+1] = clip(v1[k] + accel_1[k] * dt, 5, 80), and likewise v2,
\* and the recorded accelerations are the governed output of the control
\* law, with no noise term.
C18_NoiseOnLeadVelocityOnly ==
    \A i \in Ids : obj[i].variant = "WhiteNoise" =>
        LET h == Hist(i)
            dt == obj[i].dt
        IN  \A k \in 1 .. Len(h.L_noise) :
                /\ h.L_speed_without_noise[k] = h.v0[k] + Mul(h.accel_0[k], dt)
                /\ h.v0[k + 1] = Clip(h.L_speed_without_noise[k] + h.L_noise[k], R(5), R(80))
                /\ h.v1[k + 1] = Clip(h.v1[k] + Mul(h.accel_1[k], dt), R(5), R(80))
                /\ h.v2[k + 1] = Clip(h.v2[k] + Mul(h.accel_2[k], dt), R(5), R(80))
                /\ h.accel_0[k] = ClippedDemand(i, "target_v0", "v0", k)
                /\ h.accel_1[k] \in { ClippedDemand(i, "target_v1", "v1", k),
                                      Min(ClippedDemand(i, "target_v1", "v1", k), -R(3)) }
                /\ h.accel_2[k] \in { ClippedDemand(i, "target_v2", "v2", k),
                                      Min(ClippedDemand(i, "target_v2", "v2", k), -R(3)) }

\* a step with a disturbance that moved the Lead's velocity inside the
\* speed bounds
C18_Witness ==
    \E i \in Ids :
        /\ obj[i].variant = "WhiteNoise"
        /\ \E k \in 1 .. Len(Hist(i).L_noise) :
              /\ Hist(i).L_noise[k] # 0
              /\ Hist(i).v0[k + 1] = Hist(i).L_speed_without_noise[k] + Hist(i).L_noise[k]
              /\ Hist(i).v0[k + 1] # Hist(i).L_speed_without_noise[k]

\* np.clip(v, 5, 35) or np.clip(v, 5, 80), by variant
SpeedClip(i, v) ==
    Clip(v, R(5), IF obj[i].variant = "WhiteNoise" THEN R(80) ELSE R(35))

\* C19: emergency braking is a hard override in ring_F1 and White Noise.
\* Whenever the gap L-F1 at the start of a step is below 0.6*d, the
\* acceleration recorded as accel_1 is at most -3.0 and it is the one applied
\* to F1's velocity; the same for F2, accel_2 and the gap F1-F2; and the
\* Lead's acceleration is always the clipped output of the control law.
C19_EmergencyBrakeOverrides ==
    \A i \in Ids : IsGoverned(i) =>
        LET h == Hist(i)
            dt == obj[i].dt
        IN  \A k \in 1 .. Len(h.accel_1) :
                /\ h.x1[k] < EmergencyGap(i) =>
                      /\ h.accel_1[k] <= -R(3)
                      /\ h.v1[k + 1] = SpeedClip(i, h.v1[k] + Mul(h.accel_1[k], dt))
                /\ h.x2[k] < EmergencyGap(i) =>
                      /\ h.accel_2[k] <= -R(3)
                      /\ h.v2[k + 1] = SpeedClip(i, h.v2[k] + Mul(h.accel_2[k], dt))
                /\ h.accel_0[k] = ClippedDemand(i, "target_v0", "v0", k)

\* a step from a gap L-F1 below 0.6*d in which F1 was braked and slowed
\* down while the Lead accelerated
C19_Witness ==
    \E i \in Ids :
        /\ IsGoverned(i)
        /\ \E k \in 1 .. Len(Hist(i).accel_1) :
              /\ Hist(i).x1[k] < EmergencyGap(i)
              /\ Hist(i).accel_1[k] <= -R(3)
              /\ Hist(i).v1[k + 1] < Hist(i).v1[k]
              /\ Hist(i).accel_0[k] > 0

\* C20: in every ring variant (ring_F1, White Noise and ring2) the
\* acceleration applied to each vehicle's velocity and recorded as accel_0,
\* accel_1, accel_2 lies within [max_decel, max_accel] = [-4.0, 3.0] at
\* every step.
C20_AccelerationsWithinBounds ==
    \A i \in Ids : IsRing(i) =>
        LET h == Hist(i)
        IN  \A k \in 1 .. Len(h.accel_0) :
                /\ Within(h.accel_0[k], -R(4), R(3))
                /\ Within(h.accel_1[k], -R(4), R(3))
                /\ Within(h.accel_2[k], -R(4), R(3))

\* what a Line step does to a follower found too close after the advance
C21_Corrects ==
    \A i \in Ids : ( IsLine(i) /\ Stepped(i) ) =>
        LET a == Line_advance(obj[i], run.v)
            n == obj'[i]
            h == n.history
        IN  /\ a.x1 < R(5) =>
                  /\ n.y1 = n.x0 - R(5) /\ Last(h.y1) = n.y1 /\ Last(h.x0) = n.x0
                  /\ n.x1 = R(5) /\ Last(h.x1) = R(5)
                  /\ Last(h.v1) <= Last(h.v0)
            /\ a.x2 < R(5) =>
                  /\ n.y2 = n.y1 - R(5) /\ Last(h.y2) = n.y2
                  /\ n.x2 = R(5) /\ Last(h.x2) = R(5)
                  /\ Last(h.v2) <= Last(h.v1)

\* C21: the Line hard-gap correction.  In a step whose recomputed gap x1
\* (the Lead's new position minus F1's) is below 5.0, F1 ends at x0 - 5.0,
\* the recorded x1 is exactly 5.0 and F1's recorded velocity is at most the
\* Lead's; in a step whose recomputed gap x2 (F1's minus F2's advanced
\* positions) is below 5.0, F2 ends 5.0 behind F1's final position, the
\* recorded x2 is exactly 5.0 and F2's recorded velocity is at most F1's.
C21_LineHardGapCorrection == [][C21_Corrects]_vars

\* a Line instance with a record in which F1 stands 5.0 behind the Lead
\* without having advanced by its velocity, and a record in which F2 stands
\* 5.0 behind F1 likewise
C21_Witness ==
    \E i \in Ids :
        /\ IsLine(i)
        /\ \E n \in 2 .. Len(Hist(i).x1) :
              /\ Hist(i).x1[n] = R(5)
              /\ Hist(i).y1[n] = Hist(i).x0[n] - R(5)
              /\ Hist(i).y1[n] # Hist(i).y1[n - 1] + Mul(Hist(i).v1[n], obj[i].dt)
        /\ \E n \in 2 .. Len(Hist(i).x2) :
              /\ Hist(i).x2[n] = R(5)
              /\ Hist(i).y2[n] = Hist(i).y1[n] - R(5)
              /\ Hist(i).y2[n] # Hist(i).y2[n - 1] + Mul(Hist(i).v2[n], obj[i].dt)

\* C22: in the Line model every velocity recorded by a step is at least
\* min_speed = 5.0, for all three vehicles, also in the steps where the
\* hard-gap correction replaces a follower's velocity by the smaller of its
\* own and its leader's, whatever the initial velocities and parameters.
C22_LineVelocitiesAtLeastMinSpeed ==
    \A i \in Ids : IsLine(i) =>
        LET h == Hist(i)
        IN  \A k \in StepRecords(h.v0) :
                h.v0[k] >= R(5) /\ h.v1[k] >= R(5) /\ h.v2[k] >= R(5)

\* a Line instance started with the Lead below 5.0, with a record in which
\* F1 was set 5.0 behind the Lead and slowed to the Lead's velocity
C22_Witness ==
    \E i \in Ids :
        /\ IsLine(i)
        /\ Hist(i).v0[1] < R(5)
        /\ \E n \in 2 .. Len(Hist(i).v1) :
              /\ Hist(i).x1[n] = R(5)
              /\ Hist(i).v1[n] = Hist(i).v0[n]
              /\ Hist(i).v1[n] < Hist(i).v1[n - 1]

IsWN(i) == Live(i) /\ obj[i].variant = "WhiteNoise"
\* the mode-selected offsets of the Lead, F1 and F2
OffsetLead(p, lambda1) == (-p.c1) * lambda1 + p.c0 * (1 - lambda1)
OffsetF1(p, lambda1) == p.a11 * lambda1 - p.a0 * (1 - lambda1)
OffsetF2(p, lambda2) == p.b1 * lambda2 - p.b0 * (1 - lambda2)
NonNegativeCoefficients(o) ==
    /\ o.response_factor >= 0
    /\ \A f \in DOMAIN o.lambda_params : o.lambda_params[f] >= 0

\* C23: in the White Noise variant each recorded target velocity is the
\* velocity the step started from plus the offset its mode selects, and the
\* acceleration before the safety clamp is (target - current) *
\* response_factor, that is response_factor times the offset whatever the
\* current velocity is; the recorded acceleration is that value after the
\* safety constraints.  With non-negative coefficients the Lead's
\* acceleration is never positive in a step with lambda1 = 1 and never
\* negative in a step with lambda1 = 0.
C23_ControlLawIsOffsetTimesResponse ==
    \A i \in Ids : IsWN(i) =>
        LET o == obj[i]
            h == o.history
            p == o.lambda_params
            rf == o.response_factor
        IN  /\ \A l1 \in { 0, 1 }, l2 \in { 0, 1 } :
                  calculate_accelerations(o, WN_calculate_target_velocities(o, l1, l2),
                                          << o.v0, o.v1, o.v2 >>)
                    = << Mul(OffsetLead(p, l1), rf), Mul(OffsetF1(p, l1), rf),
                         Mul(OffsetF2(p, l2), rf) >>
            /\ \A k \in 1 .. Len(h.mode) :
                  LET l1 == h.lambda1[k]
                      l2 == h.lambda2[k]
                      pre == << Mul(OffsetLead(p, l1), rf), Mul(OffsetF1(p, l1), rf),
                                Mul(OffsetF2(p, l2), rf) >>
                  IN  /\ h.target_v0[k] = h.v0[k] + OffsetLead(p, l1)
                      /\ h.target_v1[k] = h.v1[k] + OffsetF1(p, l1)
                      /\ h.target_v2[k] = h.v2[k] + OffsetF2(p, l2)
                      /\ h.accel_0[k] = ClipAccel(pre[1])
                      /\ h.accel_1[k] = EmergencyBrake(h.x1[k], o, ClipAccel(pre[2]))
                      /\ h.accel_2[k] = EmergencyBrake(h.x2[k], o, ClipAccel(pre[3]))
                      /\ NonNegativeCoefficients(o) =>
                            /\ l1 = 1 => pre[1] <= 0 /\ h.accel_0[k] <= 0
                            /\ l1 = 0 => pre[1] >= 0 /\ h.accel_0[k] >= 0

\* a White Noise instance with positive coefficients that has recorded a
\* step with lambda1 = 1 in which the Lead braked and a step with
\* lambda1 = 0 in which it accelerated, from different velocities
C23_Witness ==
    \E i \in Ids :
        /\ IsWN(i)
        /\ NonNegativeCoefficients(obj[i])
        /\ \E k, m \in 1 .. Len(Hist(i).mode) :
              /\ Hist(i).lambda1[k] = 1 /\ Hist(i).accel_0[k] < 0
              /\ Hist(i).lambda1[m] = 0 /\ Hist(i).accel_0[m] > 0
              /\ Hist(i).v0[k] # Hist(i).v0[m]

IsRF(i) == Live(i) /\ obj[i].variant = "ring_F1"
\* the pairs of modes recorded by consecutive steps
ConsecutiveModes(mode) == { << mode[k], mode[k + 1] >> : k \in 1 .. (Len(mode) - 1) }
\* the ring_F1 runs the constructor arguments give: one run_simulation call
\* on each instance that could be built
RF_FirstRuns ==
    { RF_run_simulation(RF_init(a), 0) : a \in { b \in RF_Args : RF_init_outcome(b) = "ok" } }
C24_Recorded == UNION { ConsecutiveModes(o.history.mode) : o \in RF_FirstRuns }

\* C24: no mode transition is excluded: for every ordered pair (m, m') of
\* the modes 00, 01, 10, 11 some ring_F1 run records m in one step and m' in
\* the next; and these runs are the ones the instances make (an instance
\* that is in or past its first run_simulation call holds a prefix of its
\* run's records, or all of them).
C24_AnyModeMayFollowAny ==
    /\ (Modes \X Modes) \subseteq C24_Recorded
    /\ \A i \in Ids : ( IsRF(i) /\ NRuns(i) >= 1 ) =>
          LET full == RF_run_simulation(RF_init(Val(args[i])), 0).history.mode
              mine == Hist(i).mode
          IN  /\ RF_run_simulation(RF_init(Val(args[i])), 0) \in RF_FirstRuns
              /\ IF NRuns(i) = 1 /\ run.id = i
                 THEN mine = SubSeq(full, 1, Len(mine))
                 ELSE SubSeq(mine, 1, Len(full)) = full

\* a ring_F1 instance whose first two steps recorded "00" then "11": both
\* mode bits changed in one step
C24_Witness ==
    \E i \in Ids :
        /\ IsRF(i)
        /\ Len(Hist(i).mode) >= 2
        /\ Hist(i).mode[1] = "00" /\ Hist(i).mode[2] = "11"

\* C25: on the ring variants (track_length > 0) every position a step
\* records lies in [0, track_length), whatever the initial positions and
\* velocities were, although the constructor's record holds the positions
\* as the caller gave them, unwrapped.
C25_StepPositionsOnTrack ==
    \A i \in Ids : OnTrack(i) =>
        LET h == Hist(i)
            L == obj[i].track_length
            ip == Val(args[i]).initial_positions
        IN  /\ \A k \in StepRecords(h.x0) : \A f \in { "x0", "y1", "y2" } :
                  0 <= h[f][k] /\ h[f][k] < L
            /\ ~IsNone(ip) =>
                  h.x0[1] = Val(ip)[1] /\ h.y1[1] = Val(ip)[2] /\ h.y2[1] = Val(ip)[3]

\* a ring instance whose constructor recorded a position beyond the end of
\* the track and whose steps wrapped a position round the end of the track
\* in one direction or the other
C25_Witness ==
    \E i \in Ids :
        /\ OnTrack(i)
        /\ Hist(i).x0[1] >= obj[i].track_length
        /\ Len(Hist(i).x0) >= 3
        /\ \E k \in StepRecords(Hist(i).x0) :
              (Hist(i).x0[k] - Hist(i).x0[k - 1]) * obj[i].dt < 0

\* other initial <<position, velocity>> pairs for F2
F2Alternatives ==
    { << R(30), R(20) >>, << R(10), R(35) >>, << R(45), R(5) >>, << R(120), R(60) >> }
\* the arguments of instance i, with its initial positions and velocities
\* written out and F2's replaced by q
WithF2(i, q) ==
    LET h == Hist(i)
    IN  [ Val(args[i]) EXCEPT
            !.initial_positions = Some(<< h.x0[1], h.y1[1], q[1] >>),
            !.initial_velocities = Some(<< h.v0[1], h.v1[1], q[2] >>) ]
\* the instance constructed with those arguments, after one run_simulation
\* call that draws the noise samples instance i's run drew
OtherRun(i, q) ==
    IF obj[i].variant = "ring_F1"
    THEN RF_run_simulation(RF_init(WithF2(i, q)), 0)
    ELSE WN_run_simulation(WN_init(WithF2(i, q)), 0, born[i]).obj
\* what is recorded of the Lead and F1
AheadFields == { "x0", "y1", "x1", "v0", "v1", "lambda1", "accel_0", "accel_1" }
\* instance i is in, or has finished, its first run_simulation call
InFirstRun(i) == IsGoverned(i) /\ NRuns(i) = 1

\* C26: in ring_F1 and White Noise, F2 does not influence the vehicles ahead
\* of it.  A run that differs from an instance's run only in F2's initial
\* position and velocity (same parameters, same noise samples) records the
\* same x0, y1, x1, v0, v1, lambda1, accel_0 and accel_1 at every step.
C26_F2DoesNotInfluenceAhead ==
    \A i \in Ids : InFirstRun(i) =>
        \A q \in F2Alternatives : \A f \in AheadFields :
            Hist(i)[f] = SubSeq(OtherRun(i, q).history[f], 1, Len(Hist(i)[f]))

\* a White Noise instance after a run with a disturbance, and another F2
\* start from which F2's recorded gap, velocity and mode bit came out
\* different
C26_Witness ==
    \E i \in Ids :
        /\ obj[i].variant = "WhiteNoise"
        /\ InFirstRun(i) /\ run.id # i
        /\ Len(Hist(i).mode) >= 3
        /\ \E k \in 1 .. Len(Hist(i).L_noise) : Hist(i).L_noise[k] # 0
        /\ \E q \in F2Alternatives :
              /\ OtherRun(i, q).history.lambda2 # Hist(i).lambda2
              /\ OtherRun(i, q).history.v2 # Hist(i).v2
              /\ OtherRun(i, q).history.x2 # Hist(i).x2

\* the run instance i would have made with enable_L_noise the other way
\* round, everything else (the generator's state included) the same
ToggledRun(i) ==
    WN_run_simulation(
        WN_init([ Val(args[i]) EXCEPT !.enable_L_noise = ~Val(args[i]).enable_L_noise ]),
        0, born[i]).obj
\* history index k (from 1) of a column is at or before the start time:
\* time[k - 1] <= noise_start_time
NotAfterStart(i, k) == TimeAt(obj[i], k - 1) <= obj[i].noise_start_time

\* C27: the disturbance does not reach anything recorded at or before its
\* start time.  Two White Noise runs that differ only in enable_L_noise
\* record the same positions, gaps, velocities, modes, target velocities and
\* accelerations at every history index i with time[i] <= noise_start_time,
\* whatever the noise samples are (on a time axis that runs forward, dt > 0).
C27_NothingBeforeStartTime ==
    \A i \in Ids : ( IsWN(i) /\ NRuns(i) = 1 /\ obj[i].dt > 0 ) =>
        LET mine == Hist(i)
            other == ToggledRun(i).history
        IN  \A f \in RingStateFields \cup RingStepFields :
                \A k \in 1 .. Len(mine[f]) :
                    NotAfterStart(i, k) => mine[f][k] = other[f][k]

\* a White Noise instance with the disturbance enabled from 3.0 s, after a
\* run in which a step wrote records at 2.0 s, a later step drew a non-zero
\* sample, and the run without the disturbance ended at another velocity
C27_Witness ==
    \E i \in Ids :
        /\ IsWN(i) /\ NRuns(i) = 1 /\ run.id # i
        /\ obj[i].enable_L_noise
        /\ obj[i].dt > 0 /\ obj[i].noise_start_time > 0
        /\ Len(Hist(i).v0) >= 3 /\ NotAfterStart(i, 2)
        /\ \E k \in 1 .. Len(Hist(i).L_noise) : Hist(i).L_noise[k] # 0
        /\ Last(Hist(i).v0) # Last(ToggledRun(i).history.v0)

InitialVelocities(i) == << Hist(i).v0[1], Hist(i).v1[1], Hist(i).v2[1] >>

\* C29: the Line run_simulation never writes self.v0, self.v1, self.v2.
\* After any number of calls they are the constructor's initial velocities,
\* while self.x0, self.y1, self.y2, self.x1, self.x2 are the positions and
\* gaps recorded last; so every call starts integrating from the initial
\* velocities at the positions where the call before it ended.
C29_LineVelocityFieldsNeverWritten ==
    \A i \in Ids : IsLine(i) =>
        LET o == obj[i]
            h == o.history
            iv == Val(args[i]).initial_velocities
        IN  /\ << o.v0, o.v1, o.v2 >> = InitialVelocities(i)
            /\ << o.v0, o.v1, o.v2 >>
                 = (IF IsNone(iv) THEN Line_default_velocities ELSE Val(iv))
            /\ << o.x0, o.y1, o.y2, o.x1, o.x2 >>
                 = << Last(h.x0), Last(h.y1), Last(h.y2), Last(h.x1), Last(h.x2) >>
            /\ ( run.id = i /\ run.t_idx = 0 ) => run.v = InitialVelocities(i)

\* a Line instance entering its second run_simulation call, after a first
\* call that ended at other velocities and other positions than it began
C29_Witness ==
    \E i \in Ids :
        /\ IsLine(i)
        /\ NRuns(i) = 2 /\ run.id = i /\ run.t_idx = 0
        /\ Len(Hist(i).v0) = obj[i].ntime
        /\ << Last(Hist(i).v0), Last(Hist(i).v1), Last(Hist(i).v2) >> # InitialVelocities(i)
        /\ obj[i].x0 # Hist(i).x0[1]
        /\ run.v = << obj[i].v0, obj[i].v1, obj[i].v2 >>

\* steps k .. k + n - 1 all started with the gap in column gap below 0.6*d
EmergencyStretch(i, gap, k, n) ==
    \A j \in k .. (k + n - 1) : Hist(i)[gap][j] < EmergencyGap(i)
\* the follower pairs: the gap it keeps and its velocity column
Followers == { << "x1", "v1" >>, << "x2", "v2" >> }

\* C30 as stated: in ring_F1 and White Noise, in any step that starts with
\* the gap L-F1 below 0.6*d, F1's recorded velocity after the step is at most
\* max(5.0, velocity before the step - 3.0*dt), and it is not above the
\* velocity before the step; the same for F2 with the gap F1-F2.
C30_EmergencyBrakeNeverSpeedsUp ==
    \A i \in Ids : IsGoverned(i) =>
        LET h == Hist(i)
        IN  \A c \in Followers : \A k \in 1 .. Len(h.accel_1) :
                h[c[1]][k] < EmergencyGap(i) =>
                    /\ h[c[2]][k + 1] <= Max(R(5), h[c[2]][k] - Mul(R(3), obj[i].dt))
                    /\ h[c[2]][k + 1] <= h[c[2]][k]

\* C30 amended: in ring_F1 and White Noise with dt > 0, in any step that
\* starts with the gap L-F1 below 0.6*d, F1's recorded velocity after the
\* step is at most max(5.0, velocity before the step - 3.0*dt); it is not
\* above the velocity before the step when that was at least 5.0, and it is
\* 5.0 when that was below 5.0 (an initial velocity below the floor is
\* raised to it).  Over n consecutive such steps the velocity comes down to
\* at most max(5.0, first velocity - n*3.0*dt) and never below 5.0, so it is
\* 5.0 after at most (first velocity - 5.0) / (3.0*dt) steps, rounded up.
\* The same for F2 with the gap F1-F2.
C30_EmergencyBrakeSlowsToFloor ==
    \A i \in Ids : ( IsGoverned(i) /\ obj[i].dt > 0 ) =>
        LET h == Hist(i)
            drop == Mul(R(3), obj[i].dt)
        IN  \A c \in Followers : \A k \in 1 .. Len(h.accel_1) :
                LET gap == c[1]
                    v == h[c[2]]
                IN  /\ h[gap][k] < EmergencyGap(i) =>
                          /\ v[k + 1] <= Max(R(5), v[k] - drop)
                          /\ v[k] >= R(5) => v[k + 1] <= v[k]
                          /\ v[k] < R(5) => v[k + 1] = R(5)
                    /\ \A n \in 1 .. (Len(h.accel_1) - k + 1) :
                          EmergencyStretch(i, gap, k, n) =>
                              /\ v[k + n] <= Max(R(5), v[k] - n * drop)
                              /\ v[k + n] >= R(5)

\* an instance whose F1 started a step above 5.0 with the gap below 0.6*d,
\* stayed below 0.6*d for three steps, slowed down in each and was at 5.0
\* after the third
C30_Witness ==
    \E i \in Ids :
        /\ IsGoverned(i) /\ obj[i].dt > 0
        /\ \E k \in 1 .. (Len(Hist(i).accel_1) - 2) :
              /\ EmergencyStretch(i, "x1", k, 3)
              /\ Hist(i).v1[k] > Hist(i).v1[k + 1]
              /\ Hist(i).v1[k + 1] > Hist(i).v1[k + 2]
              /\ Hist(i).v1[k + 2] > Hist(i).v1[k + 3]
              /\ Hist(i).v1[k + 3] = R(5)

====
